---------------------------- MODULE Spec2Model ----------------------------
(***************************************************************************)
(* A model of flask_restless/manager.py: APIManager._next_blueprint_name,  *)
(* APIManager.create_api_blueprint and APIManager.create_api.              *)
(*                                                                         *)
(* Strings that the code scans, splits, parses or formats (blueprint       *)
(* names, collection names, URL segments) are sequences of one-character   *)
(* strings, so that startswith, partition, int() and '%s' formatting are   *)
(* computed character by character.  HTTP method names are TLA+ strings.   *)
(***************************************************************************)
EXTENDS Integers, Sequences, FiniteSets, TLC

VARIABLES
    blueprints,   \* keys of app.blueprints: the names of the registered blueprints
    url_map,      \* the URL rules the registered blueprints put on the application
    call,         \* the last call: its arguments, the registry before it, its outcome
    created,      \* the successful create_api calls in order: <<[coll, name], ...>>
    threads       \* per thread, the position inside a create_api call in flight

vars == <<blueprints, url_map, call, created, threads>>

-----------------------------------------------------------------------------
(* Bounds of the model. *)

\* successful create_api registrations in one behaviour
MaxRegs == 3
\* blueprints registered on the application by other code than APIManager
MaxForeign == 1
\* create_api calls each thread makes in the concurrent specification
MaxCalls == 2

-----------------------------------------------------------------------------
(* Strings. *)

Digits == <<"0", "1", "2", "3", "4", "5", "6", "7", "8", "9">>

IsDigit(c) == \E i \in 1..10 : Digits[i] = c

DigitVal(c) == (CHOOSE i \in 1..10 : Digits[i] = c) - 1

\* str(n), the '%s' formatting of an integer
RECURSIVE IntToStr(_)
IntToStr(n) ==
    IF n < 0 THEN <<"-">> \o IntToStr(0 - n)
    ELSE IF n < 10 THEN <<Digits[n + 1]>>
    ELSE IntToStr(n \div 10) \o <<Digits[(n % 10) + 1]>>

\* the value of a non-empty string of digits
RECURSIVE DigitsToNat(_)
DigitsToNat(s) ==
    IF Len(s) = 0 THEN 0
    ELSE 10 * DigitsToNat(SubSeq(s, 1, Len(s) - 1)) + DigitVal(s[Len(s)])

AllDigits(s) == Len(s) > 0 /\ \A i \in 1..Len(s) : IsDigit(s[i])

\* whether int(s) returns: an optional sign, then at least one digit
\* (the strings of the model hold no white space)
IsNumeric(s) ==
    IF Len(s) > 0 /\ s[1] \in {"-", "+"} THEN AllDigits(Tail(s)) ELSE AllDigits(s)

\* int(s), for the strings on which it returns
StrToInt(s) ==
    IF s[1] = "-" THEN 0 - DigitsToNat(Tail(s))
    ELSE IF s[1] = "+" THEN DigitsToNat(Tail(s))
    ELSE DigitsToNat(s)

\* s.startswith(p)
StartsWith(s, p) == Len(p) <= Len(s) /\ SubSeq(s, 1, Len(p)) = p

\* the positions at which sep occurs in s
Occurrences(s, sep) ==
    {i \in 1..(Len(s) - Len(sep) + 1) : SubSeq(s, i, i + Len(sep) - 1) = sep}

Min(S) == CHOOSE x \in S : \A y \in S : x <= y

Max(S) == CHOOSE x \in S : \A y \in S : y <= x

\* s.partition(sep)[-1]: what follows the first occurrence of sep in s, and
\* the empty string when sep does not occur in s
PartitionLast(s, sep) ==
    IF Occurrences(s, sep) = {} THEN <<>>
    ELSE SubSeq(s, Min(Occurrences(s, sep)) + Len(sep), Len(s))

\* APINAME_FORMAT % collection_name
apiname(collection_name) == collection_name \o <<"a", "p", "i">>

\* BLUEPRINTNAME_FORMAT % (basename, number)
BlueprintName(basename, number) == basename \o IntToStr(number)

-----------------------------------------------------------------------------
(* APIManager._next_blueprint_name *)

\* existing = [name for name in blueprints if name.startswith(basename)]
Existing(basename, names) == {n \in names : StartsWith(n, basename)}

\* the mutant: the entries int() cannot parse are skipped instead of raising
next_blueprint_name_skipUnparsable(basename, names) ==
    LET existing == {n \in Existing(basename, names) :
                        IsNumeric(PartitionLast(n, basename))}
    IN  IF existing = {}
        THEN [raised |-> "", name |-> BlueprintName(basename, 0)]
        ELSE [raised |-> "",
              name   |-> BlueprintName(basename,
                  Max({StrToInt(PartitionLast(n, basename)) : n \in existing}) + 1)]

\* the mutant: the maximum is returned, without the + 1
next_blueprint_name_noIncrement(basename, names) ==
    LET existing == Existing(basename, names)
    IN  IF existing = {}
        THEN [raised |-> "", name |-> BlueprintName(basename, 0)]
        ELSE IF \E n \in existing : ~IsNumeric(PartitionLast(n, basename))
        THEN [raised |-> "ValueError", name |-> <<>>]
        ELSE [raised |-> "",
              name   |-> BlueprintName(basename,
                  Max({StrToInt(PartitionLast(n, basename)) : n \in existing}))]

\* the mutant: the numbering starts at 1
next_blueprint_name_startAtOne(basename, names) ==
    LET existing == Existing(basename, names)
    IN  IF existing = {}
        THEN [raised |-> "", name |-> BlueprintName(basename, 1)]
        ELSE IF \E n \in existing : ~IsNumeric(PartitionLast(n, basename))
        THEN [raised |-> "ValueError", name |-> <<>>]
        ELSE [raised |-> "",
              name   |-> BlueprintName(basename,
                  Max({StrToInt(PartitionLast(n, basename)) : n \in existing}) + 1)]

\* The name the method returns, or the exception int() raises on a remainder
\* that is no number.
next_blueprint_name(basename, names) ==
    LET existing == Existing(basename, names)
    IN  IF existing = {}
        THEN [raised |-> "", name |-> BlueprintName(basename, 0)]
        ELSE IF \E n \in existing : ~IsNumeric(PartitionLast(n, basename))
        THEN [raised |-> "ValueError", name |-> <<>>]
        ELSE [raised |-> "",
              name   |-> BlueprintName(basename,
                  Max({StrToInt(PartitionLast(n, basename)) : n \in existing}) + 1)]

-----------------------------------------------------------------------------
(* The arguments of create_api_blueprint that decide names and routes. *)

\* READONLY_METHODS, the default of `methods`
READONLY_METHODS == {"GET"}

\* the default of `url_prefix`, '/api', as its segments
DefaultUrlPrefix == <<<<"a", "p", "i">>>>

\* authentication_required_for left at its default, None
NoVerbs == [given |-> FALSE, verbs |-> {}]

\* a list of method names passed as authentication_required_for
VerbList(vs) == [given |-> TRUE, verbs |-> vs]

\* the truth value Python gives None and the empty list (false) or a
\* non-empty list (true)
Truthy(required_for) == required_for.given /\ required_for.verbs # {}

\* m.upper(), on the method names of the model
Upper(m) ==
    CASE m = "get"    -> "GET"
      [] m = "post"   -> "POST"
      [] m = "patch"  -> "PATCH"
      [] m = "put"    -> "PUT"
      [] m = "delete" -> "DELETE"
      [] m = "head"   -> "HEAD"
      [] OTHER        -> m

\* the keyword arguments left at their defaults
DefaultArgs ==
    [collection_name             |-> <<>>,
     methods                     |-> READONLY_METHODS,
     url_prefix                  |-> DefaultUrlPrefix,
     allow_patch_many            |-> FALSE,
     allow_functions             |-> FALSE,
     authentication_required_for |-> NoVerbs,
     authentication_function     |-> FALSE,
     relations                   |-> <<>>]

-----------------------------------------------------------------------------
(* APIManager.create_api_blueprint *)

\* the mutant: the check forgets to look at authentication_function
AuthCheckFails_ignoresFunction(a) == Truthy(a.authentication_required_for)

\* if authentication_required_for and not authentication_function: raise
AuthCheckFails(a) ==
    Truthy(a.authentication_required_for) /\ ~a.authentication_function

\* methods = frozenset((m.upper() for m in methods))
Methods(a) == {Upper(m) : m \in a.methods}

no_instance_methods(a) == Methods(a) \cap {"POST"}

\* the mutant: allow_patch_many is not consulted
possibly_empty_instance_methods_alwaysMany(a) ==
    Methods(a) \cap {"GET", "PATCH", "PUT"}

possibly_empty_instance_methods(a) ==
    IF a.allow_patch_many
    THEN Methods(a) \cap {"GET", "PATCH", "PUT"}
    ELSE Methods(a) \cap {"GET"}

instance_methods(a) == Methods(a) \cap {"GET", "PATCH", "DELETE", "PUT"}

\* a literal segment of a URL rule
Lit(text) == [kind |-> "lit", text |-> text]

\* the segment '<int:instid>' or '<string:instid>'
Conv(converter) == [kind |-> converter, text |-> <<>>]

\* for converter in ('int', 'string')
Converters == <<"int", "string">>

\* collection_endpoint = '/%s' % collection_name
collection_endpoint(a) == <<Lit(a.collection_name)>>

\* api_view = API.as_view(apiname, ...)
api_view(a) == [kind |-> "API", name |-> apiname(a.collection_name)]

\* the two rules on the collection endpoint: the methods on the collection
\* only, and those that may or may not name an instance (instid = None)
CollectionRules(a) ==
    << [rule     |-> collection_endpoint(a),
        defaults |-> FALSE,
        methods  |-> no_instance_methods(a),
        view     |-> api_view(a)],
       [rule     |-> collection_endpoint(a),
        defaults |-> TRUE,
        methods  |-> possibly_empty_instance_methods(a),
        view     |-> api_view(a)] >>

\* '%s/<%s:instid>' % (collection_endpoint, converter), for both converters
InstanceRules(a) ==
    [i \in 1..Len(Converters) |->
        [rule     |-> collection_endpoint(a) \o <<Conv(Converters[i])>>,
         defaults |-> FALSE,
         methods  |-> instance_methods(a),
         view     |-> api_view(a)]]

\* '%s/<%s:instid>/%s/' % (collection_endpoint, converter, relname), for each
\* one-to-many relation of the model in order and both converters: GET only
RelationRules(a) ==
    [k \in 1..(Len(Converters) * Len(a.relations)) |->
        LET relname   == a.relations[((k - 1) \div Len(Converters)) + 1]
            converter == Converters[((k - 1) % Len(Converters)) + 1]
        IN  [rule     |-> collection_endpoint(a)
                            \o <<Conv(converter), Lit(relname), Lit(<<>>)>>,
             defaults |-> FALSE,
             methods  |-> {"GET"},
             view     |-> [kind |-> "related", name |-> relname]]]

\* the mutant: eval_endpoint = collection_endpoint + '/eval'
EvalRules_evalLast(a) ==
    IF a.allow_functions
    THEN << [rule     |-> collection_endpoint(a) \o <<Lit(<<"e", "v", "a", "l">>)>>,
             defaults |-> FALSE,
             methods  |-> {"GET"},
             view     |-> [kind |-> "FunctionAPI",
                           name |-> apiname(a.collection_name)
                                      \o <<"e", "v", "a", "l">>]] >>
    ELSE <<>>

\* eval_endpoint = '/eval' + collection_endpoint, GET only, if allow_functions
EvalRules(a) ==
    IF a.allow_functions
    THEN << [rule     |-> <<Lit(<<"e", "v", "a", "l">>)>> \o collection_endpoint(a),
             defaults |-> FALSE,
             methods  |-> {"GET"},
             view     |-> [kind |-> "FunctionAPI",
                           name |-> apiname(a.collection_name)
                                      \o <<"e", "v", "a", "l">>]] >>
    ELSE <<>>

\* the rules added to the blueprint, in the order of the add_url_rule calls
BlueprintRules(a) ==
    CollectionRules(a) \o InstanceRules(a) \o RelationRules(a) \o EvalRules(a)

NoBlueprint == [name |-> <<>>, url_prefix |-> <<>>, rules |-> <<>>]

\* What the method returns or raises, given the names in app.blueprints:
\* the argument check, then the name, then the blueprint and its rules.
create_api_blueprint(a, names) ==
    IF AuthCheckFails(a)
    THEN [raised |-> "IllegalArgumentError", blueprint |-> NoBlueprint]
    ELSE LET next == next_blueprint_name(apiname(a.collection_name), names)
         IN  IF next.raised # ""
             THEN [raised |-> next.raised, blueprint |-> NoBlueprint]
             ELSE [raised    |-> "",
                   blueprint |-> [name       |-> next.name,
                                  url_prefix |-> a.url_prefix,
                                  rules      |-> BlueprintRules(a)]]

-----------------------------------------------------------------------------
(* app.register_blueprint, as create_api uses it. *)

\* the rules of a blueprint as the application holds them: the URL prefix
\* of the blueprint before each rule
AppRules(bp) ==
    {[path       |-> [j \in 1..Len(bp.url_prefix) |-> Lit(bp.url_prefix[j])]
                       \o bp.rules[i].rule,
      methods    |-> bp.rules[i].methods,
      view       |-> bp.rules[i].view,
      url_prefix |-> bp.url_prefix,
      blueprint  |-> bp.name] : i \in 1..Len(bp.rules)}

\* A second blueprint under a name already in app.blueprints is refused, and
\* the registry keeps what it held.
RegisterRaises(bp, names) == IF bp.name \in names THEN "AssertionError" ELSE ""

\* whether the converter of a rule segment accepts a segment of a URL: a
\* literal is itself, int takes digits, string takes any non-empty segment
SegmentMatches(text, segment) ==
    CASE segment.kind = "lit"    -> text = segment.text
      [] segment.kind = "int"    -> AllDigits(text)
      [] segment.kind = "string" -> Len(text) > 0

\* whether the URL with these segments is matched by the rule with this path
Matches(url, path) ==
    /\ Len(url) = Len(path)
    /\ \A i \in 1..Len(url) : SegmentMatches(url[i], path[i])

\* app.blueprints after register_blueprint(bp)
RegisteredNames(bp, names) ==
    IF RegisterRaises(bp, names) = "" THEN names \cup {bp.name} ELSE names

\* the rules of the application after register_blueprint(bp)
RegisteredRules(bp, names, rules) ==
    IF RegisterRaises(bp, names) = "" THEN rules \cup AppRules(bp) ELSE rules

-----------------------------------------------------------------------------
(* The inputs. *)

\* collection names of which one API name is a prefix of the other's
NamingColls == {<<"p">>, <<"p", "a", "p", "i">>}

\* collection names among which is the segment of the evaluation endpoint
UrlColls == {<<"p">>, <<"e", "v", "a", "l">>}

UrlPrefixes == {DefaultUrlPrefix, DefaultUrlPrefix \o <<<<"e", "v", "a", "l">>>>}

RelationLists == {<<>>, <<<<"r">>>>}

\* what follows the API name in the name of a blueprint registered by other
\* code: nothing, a number, a number with a gap below it, a number of one
\* digit before a number of two, a zero in front, a sign
Remainders == {<<>>, <<"0">>, <<"2">>, <<"9">>, <<"0", "1">>, <<"-", "2">>}

ForeignNames == {apiname(c) \o r : c \in NamingColls, r \in Remainders}

\* authentication_required_for and authentication_function: neither, an
\* empty list, a list without a function, a list with a function
AuthChoices ==
    {<<NoVerbs, FALSE>>, <<VerbList({}), FALSE>>,
     <<VerbList({"POST"}), FALSE>>, <<VerbList({"POST"}), TRUE>>}

\* the calls of the naming specification: the collection and the
\* authentication arguments vary
NamingArgs ==
    {[DefaultArgs EXCEPT !.collection_name = c,
                         !.authentication_required_for = au[1],
                         !.authentication_function = au[2]] :
        c \in NamingColls, au \in AuthChoices}

\* the calls of the URL specification: what decides the paths varies
UrlArgs ==
    {[DefaultArgs EXCEPT !.collection_name = c,
                         !.url_prefix = u,
                         !.allow_functions = e,
                         !.relations = rs] :
        c \in UrlColls, u \in UrlPrefixes, e \in BOOLEAN, rs \in RelationLists}

\* method names as a caller may write them: the five the API serves, one it
\* does not serve, and lower case
MethodNames == {"GET", "POST", "PATCH", "PUT", "DELETE", "HEAD", "get"}

\* the calls of the route specification: what decides the rules varies
\* (at least one method name is given)
RouteArgs ==
    {[DefaultArgs EXCEPT !.collection_name = <<"p">>,
                         !.methods = ms,
                         !.allow_patch_many = m,
                         !.allow_functions = e,
                         !.relations = rs,
                         !.authentication_required_for = r,
                         !.authentication_function = f] :
        ms \in (SUBSET MethodNames) \ {{}}, m \in BOOLEAN, e \in BOOLEAN,
        rs \in RelationLists, r \in {NoVerbs, VerbList({"POST"})},
        f \in BOOLEAN}

Threads == {1, 2}

-----------------------------------------------------------------------------
(* The state machine. *)

NoCall ==
    [op        |-> "none",
     args      |-> DefaultArgs,
     before    |-> {},
     raised    |-> "",
     blueprint |-> NoBlueprint]

IdleThread ==
    [pc        |-> "idle",
     calls     |-> 0,
     args      |-> DefaultArgs,
     raised    |-> "",
     blueprint |-> NoBlueprint]

Init ==
    /\ blueprints = {}
    /\ url_map = {}
    /\ call = NoCall
    /\ created = <<>>
    /\ threads = [t \in Threads |-> IdleThread]

\* the mutant: the blueprint is registered before it is returned, as the
\* last paragraph of the method's description has it
DoCreateApiBlueprint_registers(a) ==
    LET r == create_api_blueprint(a, blueprints)
    IN  /\ call' = [op        |-> "create_api_blueprint",
                    args      |-> a,
                    before    |-> blueprints,
                    raised    |-> r.raised,
                    blueprint |-> r.blueprint]
        /\ blueprints' = IF r.raised = ""
                         THEN RegisteredNames(r.blueprint, blueprints)
                         ELSE blueprints
        /\ UNCHANGED <<url_map, created, threads>>

\* create_api_blueprint(**a): the blueprint is built and returned, or the
\* call raises; the application is not touched
DoCreateApiBlueprint(a) ==
    LET r == create_api_blueprint(a, blueprints)
    IN  /\ call' = [op        |-> "create_api_blueprint",
                    args      |-> a,
                    before    |-> blueprints,
                    raised    |-> r.raised,
                    blueprint |-> r.blueprint]
        /\ UNCHANGED <<blueprints, url_map, created, threads>>

\* create_api(**a): create_api_blueprint, then app.register_blueprint
create_api(a) ==
    LET r   == create_api_blueprint(a, blueprints)
        reg == IF r.raised = "" THEN RegisterRaises(r.blueprint, blueprints)
                                ELSE ""
    IN  /\ call' = [op        |-> "create_api",
                    args      |-> a,
                    before    |-> blueprints,
                    raised    |-> IF r.raised # "" THEN r.raised ELSE reg,
                    blueprint |-> r.blueprint]
        /\ IF r.raised = ""
           THEN /\ blueprints' = RegisteredNames(r.blueprint, blueprints)
                /\ url_map' = RegisteredRules(r.blueprint, blueprints, url_map)
                /\ created' = IF reg = ""
                              THEN Append(created,
                                          [coll |-> a.collection_name,
                                           name |-> r.blueprint.name])
                              ELSE created
           ELSE UNCHANGED <<blueprints, url_map, created>>
        /\ UNCHANGED threads

\* the names in app.blueprints that no create_api call put there
Foreign == blueprints \ {created[i].name : i \in 1..Len(created)}

CreateApi ==
    \E a \in NamingArgs : Len(created) < MaxRegs /\ create_api(a)

CreateBlueprintOnly ==
    \E a \in NamingArgs : DoCreateApiBlueprint(a)

\* other code registers a blueprint of its own on the application
RegisterForeign ==
    \E n \in ForeignNames :
        /\ Cardinality(Foreign) < MaxForeign
        /\ n \notin blueprints
        /\ blueprints' = blueprints \cup {n}
        /\ call' = [NoCall EXCEPT !.op = "register_blueprint",
                                  !.before = blueprints]
        /\ UNCHANGED <<url_map, created, threads>>

Next == CreateApi \/ CreateBlueprintOnly \/ RegisterForeign

\* sequential calls on one application, among blueprints of other code
Spec == Init /\ [][Next]_vars

-----------------------------------------------------------------------------
(* Registrations under several URL prefixes and collection names. *)

CreateApiUrls ==
    \E a \in UrlArgs : Len(created) < MaxRegs /\ create_api(a)

NextUrls == CreateApiUrls

SpecUrls == Init /\ [][NextUrls]_vars

-----------------------------------------------------------------------------
(* One call on a fresh application, over the arguments that decide routes. *)

InitRoutes ==
    /\ blueprints = {}
    /\ url_map = {}
    /\ call \in {[NoCall EXCEPT !.op = "pending", !.args = a] : a \in RouteArgs}
    /\ created = <<>>
    /\ threads = [t \in Threads |-> IdleThread]

BuildRoutes == call.op = "pending" /\ DoCreateApiBlueprint(call.args)

RegisterRoutes == call.op = "pending" /\ create_api(call.args)

NextRoutes == BuildRoutes \/ RegisterRoutes

SpecRoutes == InitRoutes /\ [][NextRoutes]_vars

-----------------------------------------------------------------------------
(* create_api in several threads: nothing orders one thread's               *)
(* register_blueprint after another thread's create_api_blueprint.          *)

ConcArgs == {[DefaultArgs EXCEPT !.collection_name = c] : c \in NamingColls}

\* line 460: blueprint = self.create_api_blueprint(*args, **kw)
ThreadCreateBlueprint(t) ==
    \E a \in ConcArgs :
        /\ threads[t].pc # "built"
        /\ threads[t].calls < MaxCalls
        /\ LET r == create_api_blueprint(a, blueprints)
           IN  threads' = [threads EXCEPT ![t] =
                   [pc        |-> IF r.raised = "" THEN "built" ELSE "raised",
                    calls     |-> threads[t].calls + 1,
                    args      |-> a,
                    raised    |-> r.raised,
                    blueprint |-> r.blueprint]]
        /\ UNCHANGED <<blueprints, url_map, call, created>>

\* line 461: self.app.register_blueprint(blueprint)
ThreadRegister(t) ==
    /\ threads[t].pc = "built"
    /\ LET bp  == threads[t].blueprint
           reg == RegisterRaises(bp, blueprints)
       IN  /\ blueprints' = RegisteredNames(bp, blueprints)
           /\ url_map' = RegisteredRules(bp, blueprints, url_map)
           /\ created' = IF reg = ""
                         THEN Append(created,
                                     [coll |-> threads[t].args.collection_name,
                                      name |-> bp.name])
                         ELSE created
           /\ threads' = [threads EXCEPT ![t].pc = IF reg = "" THEN "returned"
                                                               ELSE "raised",
                                         ![t].raised = reg]
    /\ UNCHANGED call

NextConc == \E t \in Threads : ThreadCreateBlueprint(t) \/ ThreadRegister(t)

SpecConc == Init /\ [][NextConc]_vars

-----------------------------------------------------------------------------
(* What the properties below read off a state. *)

IsCreateCall == call.op \in {"create_api", "create_api_blueprint"}

\* the base name of the last call
CallBase == apiname(call.args.collection_name)

\* what follows the base name in a name that starts with it
After(name, basename) == SubSeq(name, Len(basename) + 1, Len(name))

\* the registry entries of the last call's base name, before the call
CallExisting == {n \in call.before : StartsWith(n, CallBase)}

\* the last call passed the argument check and every registry entry of its
\* base name had a number after the base name
CallNumeric ==
    /\ IsCreateCall
    /\ ~(Truthy(call.args.authentication_required_for)
            /\ ~call.args.authentication_function)
    /\ \A n \in CallExisting : IsNumeric(After(n, CallBase))

\* the names create_api gave to collection c, in order
History(c) ==
    LET mine == SelectSeq(created, LAMBDA e : e.coll = c)
    IN  [i \in 1..Len(mine) |-> mine[i].name]

\* the verbs the last call configured, in upper case
CallVerbs == {Upper(m) : m \in call.args.methods}

CallRules == call.blueprint.rules

\* the verbs bound by any rule of the blueprint the last call built
BoundVerbs == UNION {CallRules[i].methods : i \in 1..Len(CallRules)}

\* the last call built a blueprint
Built == IsCreateCall /\ call.raised = ""

-----------------------------------------------------------------------------
(* C1 *)

\* C1: two concurrent create_api calls for the same collection on the same
\* application never hold blueprints of the same name: the scan of the names
\* and the registration of the chosen name are one atomic step.
C1_ConcurrentNamesDistinct ==
    \A t1, t2 \in Threads :
        (/\ t1 # t2
         /\ threads[t1].blueprint # NoBlueprint
         /\ threads[t2].blueprint # NoBlueprint
         /\ threads[t1].args.collection_name = threads[t2].args.collection_name)
        => threads[t1].blueprint.name # threads[t2].blueprint.name

-----------------------------------------------------------------------------
(* C2 *)

\* C2: when the registry entries that start with a base name are exactly the
\* names create_api gave that collection (the registry held none of them at
\* the start and nothing else added one), the N sequential create_api calls
\* got base0, base1, ..., base(N-1), in that order.
C2_SequentialNames ==
    \A c \in NamingColls :
        LET hist == History(c)
        IN  (Existing(apiname(c), blueprints) = {hist[i] : i \in 1..Len(hist)})
            => \A i \in 1..Len(hist) :
                   /\ hist[i] = apiname(c) \o IntToStr(i - 1)
                   /\ \A j \in 1..Len(hist) : j # i => hist[j] # hist[i]

C2_Witness ==
    \E c \in NamingColls :
        /\ Len(History(c)) >= 3
        /\ Existing(apiname(c), blueprints)
             = {History(c)[i] : i \in 1..Len(History(c))}

-----------------------------------------------------------------------------
(* C3 *)

\* the smallest non-negative integer n with basename + str(n) not in names
SmallestFree(basename, names) ==
    Min({n \in 0..Cardinality(names) : BlueprintName(basename, n) \notin names})

-----------------------------------------------------------------------------
(* C4 *)

\* C4: a call raises IllegalArgumentError exactly when
\* authentication_required_for is non-empty and authentication_function is
\* absent, whatever the registry holds; that call allocates no name, builds
\* no route and leaves the registry as it was.
C4_AuthCheckFirst ==
    IsCreateCall =>
        /\ (call.raised = "IllegalArgumentError")
             <=> (/\ call.args.authentication_required_for.given
                  /\ call.args.authentication_required_for.verbs # {}
                  /\ ~call.args.authentication_function)
        /\ call.raised = "IllegalArgumentError" =>
             /\ call.blueprint = NoBlueprint
             /\ blueprints = call.before

\* the check failed although the name allocation would have raised too
C4_Witness ==
    /\ call.op = "create_api"
    /\ call.raised = "IllegalArgumentError"
    /\ call.args.authentication_required_for = VerbList({"POST"})
    /\ \E n \in CallExisting : ~IsNumeric(After(n, CallBase))
    /\ blueprints = call.before

-----------------------------------------------------------------------------
(* C5 *)

\* C5: a call whose methods hold, in upper case, a verb outside POST, GET,
\* PATCH, PUT and DELETE is rejected with an error; no blueprint is built
\* that leaves the verb out.
C5_UnsupportedVerbRejected ==
    (IsCreateCall
        /\ \E v \in CallVerbs : v \notin {"POST", "GET", "PATCH", "PUT", "DELETE"})
    => call.raised # ""

-----------------------------------------------------------------------------
(* C6 *)

\* C6: every rule of a blueprint built by a call binds at least one verb.
C6_NoEmptyVerbSet ==
    Built => \A i \in 1..Len(CallRules) : CallRules[i].methods # {}

-----------------------------------------------------------------------------
(* C7 *)

\* C7: the three method sets are subsets of the configured verbs and their
\* union is the set of verbs bound by the rules of the blueprint: no rule,
\* relation and evaluation rules included, binds a verb that was not
\* configured.
C7_BoundVerbsConfigured ==
    Built =>
        /\ no_instance_methods(call.args) \subseteq CallVerbs
        /\ possibly_empty_instance_methods(call.args) \subseteq CallVerbs
        /\ instance_methods(call.args) \subseteq CallVerbs
        /\ BoundVerbs = no_instance_methods(call.args)
                          \cup possibly_empty_instance_methods(call.args)
                          \cup instance_methods(call.args)
        /\ BoundVerbs \subseteq CallVerbs

-----------------------------------------------------------------------------
(* C8 *)

EvalSegment == <<"e", "v", "a", "l">>

\* the rules of the blueprint the last call built that the evaluation view
\* serves
CallEvalRules ==
    {i \in 1..Len(CallRules) : CallRules[i].view.kind = "FunctionAPI"}

\* with allow_functions the blueprint holds one rule more, GET only, at
\* '/eval' + the collection path, served by the evaluation view; without,
\* none
EvalRuleShape ==
    Built =>
        /\ Cardinality(CallEvalRules) = (IF call.args.allow_functions THEN 1 ELSE 0)
        /\ Len(CallRules) = 4 + 2 * Len(call.args.relations)
                              + Cardinality(CallEvalRules)
        /\ \A i \in CallEvalRules :
               /\ CallRules[i].methods = {"GET"}
               /\ CallRules[i].rule
                    = <<Lit(EvalSegment), Lit(call.args.collection_name)>>
        /\ \A i \in 1..Len(CallRules) :
               (CallRules[i].rule[1] = Lit(EvalSegment)
                    /\ call.args.collection_name # EvalSegment)
               => i \in CallEvalRules

\* the URL an evaluation rule of the application answers: its path holds
\* literal segments only
UrlOf(rule) == [i \in 1..Len(rule.path) |-> rule.path[i].text]

\* the collection name a rule of the application was built for
CollectionOf(rule) ==
    IF rule.view.kind = "FunctionAPI"
    THEN rule.path[Len(rule.url_prefix) + 2].text
    ELSE rule.path[Len(rule.url_prefix) + 1].text

\* C8 as stated: with allow_functions there is exactly one more rule, GET
\* only, at '/eval' + the collection path, and the URL it matches is matched
\* by no collection, instance or relation rule of any registered resource;
\* without allow_functions there is no such rule.
C8_EvalPathDisjoint ==
    /\ EvalRuleShape
    /\ \A e \in url_map : e.view.kind = "FunctionAPI" =>
           \A r \in url_map : r.view.kind # "FunctionAPI" =>
               ~Matches(UrlOf(e), r.path)

\* C8 amended: the same, the URL being matched by no collection, instance or
\* relation rule of a resource registered under the same URL prefix whose
\* collection name is not 'eval'.
C8_EvalPathDisjointUnlessEval ==
    /\ EvalRuleShape
    /\ \A e \in url_map : e.view.kind = "FunctionAPI" =>
           \A r \in url_map :
               (/\ r.view.kind # "FunctionAPI"
                /\ r.url_prefix = e.url_prefix
                /\ CollectionOf(r) # EvalSegment)
               => ~Matches(UrlOf(e), r.path)

\* an evaluation rule is registered beside the rules, relation rules among
\* them, of another resource under the same prefix
C8_Witness ==
    /\ Built
    /\ call.op = "create_api"
    /\ call.args.allow_functions
    /\ Cardinality(CallEvalRules) = 1
    /\ \E e \in url_map : \E r \in url_map :
           /\ e.view.kind = "FunctionAPI"
           /\ e.blueprint = call.blueprint.name
           /\ r.view.kind = "related"
           /\ r.blueprint # e.blueprint
           /\ r.url_prefix = e.url_prefix
           /\ CollectionOf(r) # EvalSegment

-----------------------------------------------------------------------------
(* C9 *)

\* the rules of the built blueprint on the collection path
CollectionPathRules ==
    {i \in 1..Len(CallRules) :
        CallRules[i].rule = <<Lit(call.args.collection_name)>>}

\* the rules of the built blueprint on an instance path: the collection
\* path, then the identifier
InstancePathRules ==
    {i \in 1..Len(CallRules) :
        /\ Len(CallRules[i].rule) = 2
        /\ CallRules[i].rule[1] = Lit(call.args.collection_name)
        /\ CallRules[i].rule[2].kind \in {"int", "string"}}

-----------------------------------------------------------------------------
(* C10 *)

\* C10: when the registry holds an entry that starts with the base name and
\* does not go on with a number, the call fails, with the ValueError of the
\* name allocation once the arguments pass their check, and the registry
\* after the call is the registry before it.
C10_NamingErrorKeepsRegistry ==
    (IsCreateCall /\ \E n \in CallExisting : ~IsNumeric(After(n, CallBase)))
    => /\ call.raised # ""
       /\ ~(Truthy(call.args.authentication_required_for)
               /\ ~call.args.authentication_function)
            => call.raised = "ValueError"
       /\ call.blueprint = NoBlueprint
       /\ blueprints = call.before

\* create_api raised the ValueError over an entry of the registry that other
\* code had put there
C10_Witness ==
    /\ call.op = "create_api"
    /\ call.raised = "ValueError"
    /\ \E n \in CallExisting : ~IsNumeric(After(n, CallBase))
    /\ blueprints = call.before
    /\ blueprints # {}

-----------------------------------------------------------------------------
(* C11 *)

-----------------------------------------------------------------------------
(* C12 *)

\* the names of the registry before the last call were all given by
\* create_api calls that returned
OnlyCreatedBefore ==
    call.before \subseteq {created[i].name : i \in 1..Len(created)}

\* C12: over a registry that holds only names given by create_api calls
\* that returned, for whatever collections, a call whose arguments pass their
\* check does not fail in the name allocation: every registry entry that
\* starts with its base name goes on with a number.
C12_AllocationIndependent ==
    (/\ IsCreateCall
     /\ OnlyCreatedBefore
     /\ ~(Truthy(call.args.authentication_required_for)
             /\ ~call.args.authentication_function))
    => /\ \A n \in CallExisting : IsNumeric(After(n, CallBase))
       /\ call.raised = ""

=============================================================================
